---- MODULE Spec2Model ----
(***************************************************************************)
(* HugeAllocator (src/src/util/huge_alloc.h): a hugepage-backed allocator  *)
(* of 4 KiB pages (freeable) and >= 2 MiB buffers (never freed), on top of *)
(* SysV SHM regions.  Addresses and sizes are in bytes.                    *)
(***************************************************************************)
EXTENDS Integers, Sequences, FiniteSets, Bags

(* ---------------- program constants ---------------- *)
kPageSize == 4096
kHugepageSize == 2097152
kPagesPerHugepage == kHugepageSize \div kPageSize
\* kMaxAllocSize = 256 GiB, kept in hugepage units (256 GiB / 2 MiB)
kMaxAllocHugepages == 131072
nullptr == 0

MB(x) == x * 1048576

(* ---------------- bounds of the model ---------------- *)
\* hugepages the OS can hand out in total
OsHugepages == 3
\* hugepage-sized slots of virtual address space where a segment can be mapped
MaxSlot == 3
\* SHM keys are drawn from 0..MaxKey
MaxKey == 2
\* pages pushed by free_page and not yet popped again
MaxFreed == 2
\* pages live at a time under Spec (SpecDeep does not bound them)
MaxLivePages == 3
\* SpecHuge: hugepages of the OS, slots of address space, pages live at a time
HugeOsHugepages == 4
HugeMaxSlot == 4
HugeMaxLivePages == 1

InitialSizes == {MB(2), MB(3)}
DeepInitialSizes == {MB(2)}
DeepHugeSizes == {MB(2)}
HugeSizes == {MB(2), MB(3)}
\* SpecHuge also starts from 1.5 MiB, which is not a multiple of kHugepageSize
HugeInitialSizes == {MB(3) \div 2, MB(2), MB(3)}
NumaNodes == {0, 1}
\* the NUMA nodes the machine has
OsNodes == {0}
\* seeds of the key generator
RandSeeds == {0, 1}
KeySpace == 0..MaxKey

VARIABLES
  status,                \* "none" | "live" | "thrown" | "hung" | "exited" |
                         \* "destroyed"
  numa_node,
  shm_list,              \* sequence of shm_region_t
  page_freelist,         \* sequence of addresses, back = end
  tot_free_hugepages,
  prev_allocation_size,  \* a size_t: [c2, c1, c0], see below
  tot_memory_reserved,
  tot_memory_allocated,
  os_free,               \* OS: hugepages still available
  os_segs,               \* OS: existing segments [key, base, size]
  os_slots,              \* OS: hugepage-sized slots of address space (1..os_slots)
  slow_rand,             \* state of the key generator
  last_op,               \* the public operation that ran last
  last_arg,              \* its argument (0 if none)
  ret,                   \* its return value (nullptr if none)
  acq,                   \* what the region acquirer answered in that operation
  live_pages,            \* bag of the pages returned by alloc_page and not freed since
  huge_bufs,             \* buffers returned by alloc_huge: [addr, size asked for]
  freed,                 \* pages pushed by free_page and not popped since
  created,               \* regions in the order they were registered
  rm_log,                \* keys marked for removal, in order
  dt_log,                \* bases detached, in order
  regions_wide,          \* SpecWide: shm_list, sizes counted in hugepages
  pages_wide,            \* SpecWide: pages in page_freelist and pages live
  arg_wide               \* SpecWide: the rounded size of the last alloc_huge

vars == <<status, numa_node, shm_list, page_freelist, tot_free_hugepages,
          prev_allocation_size, tot_memory_reserved, tot_memory_allocated,
          os_free, os_segs, os_slots, slow_rand, last_op, last_arg, ret, acq, live_pages,
          huge_bufs, freed, created, rm_log, dt_log, regions_wide,
          pages_wide, arg_wide>>

wide_vars == <<regions_wide, pages_wide, arg_wide>>
os_vars == <<os_free, os_segs>>
log_vars == <<rm_log, dt_log>>

(* ---------------- size_t ---------------- *)
\* A 64-bit value is [c2, c1, c0] = c2 * 2^42 + c1 * 2^21 + c0 with
\* c0, c1 < 2^21 and c2 < 2^22: c0 is the bytes beyond whole hugepages and
\* c2 * 2^21 + c1 the whole hugepages.
kTopLimb == 2 * kHugepageSize

\* hugepages * kHugepageSize + bytes
Wide(hugepages, bytes) ==
  [c2 |-> (hugepages \div kHugepageSize) % kTopLimb,
   c1 |-> hugepages % kHugepageSize,
   c0 |-> bytes]

IsZero64(x) == x.c2 = 0 /\ x.c1 = 0 /\ x.c0 = 0

\* x < y
Less64(x, y) ==
  \/ x.c2 < y.c2
  \/ x.c2 = y.c2 /\ x.c1 < y.c1
  \/ x.c2 = y.c2 /\ x.c1 = y.c1 /\ x.c0 < y.c0

\* prev_allocation_size *= 2 on size_t: x * 2 modulo 2^64
Double64(x) ==
  [c2 |-> (2 * x.c2
             + (2 * x.c1 + (2 * x.c0) \div kHugepageSize) \div kHugepageSize)
            % kTopLimb,
   c1 |-> (2 * x.c1 + (2 * x.c0) \div kHugepageSize) % kHugepageSize,
   c0 |-> (2 * x.c0) % kHugepageSize]

\* round_up<kHugepageSize>(x) on size_t
round_up64(x) ==
  IF x.c0 = 0 THEN x
  ELSE [c2 |-> (x.c2 + (x.c1 + 1) \div kHugepageSize) % kTopLimb,
        c1 |-> (x.c1 + 1) % kHugepageSize,
        c0 |-> 0]

\* a size of less than 2^31 bytes as a size_t
U64(n) == Wide(n \div kHugepageSize, n % kHugepageSize)

(* ---------------- helpers ---------------- *)
round_up(x) == kHugepageSize * ((x + kHugepageSize - 1) \div kHugepageSize)

Last(s) == s[Len(s)]
Front(s) == SubSeq(s, 1, Len(s) - 1)

shm_region_t(key, buf, size) ==
  [key |-> key, base_buf |-> buf, size |-> size, cur_buf |-> buf,
   free_hugepages |-> size \div kHugepageSize]

\* mutant: the cursor is not advanced
pop_hugepages_keeps_cursor(shm_region, num_hugepages) ==
  [shm_region EXCEPT !.free_hugepages = @ - num_hugepages]

\* mutant: the cursor moves down
pop_hugepages_moves_back(shm_region, num_hugepages) ==
  [shm_region EXCEPT !.cur_buf = @ - num_hugepages * kHugepageSize,
                     !.free_hugepages = @ - num_hugepages]

\* mutant: the cursor moves by one hugepage whatever the count
pop_hugepages_one_step(shm_region, num_hugepages) ==
  [shm_region EXCEPT !.cur_buf = @ + kHugepageSize,
                     !.free_hugepages = @ - num_hugepages]

pop_hugepages(shm_region, num_hugepages) ==
  [shm_region EXCEPT !.cur_buf = @ + num_hugepages * kHugepageSize,
                     !.free_hugepages = @ - num_hugepages]

(* ---------------- the OS ---------------- *)
Slots == 1..os_slots

\* slots covered by the existing segments
UsedSlots(segs) ==
  UNION {{s \in Slots : seg.base <= s * kHugepageSize
                        /\ s * kHugepageSize < seg.base + seg.size} : seg \in segs}

\* slots where a mapping of n hugepages fits
FreeSlotsFor(segs, n) ==
  {s \in Slots : /\ s + n - 1 <= os_slots
                 /\ \A t \in s..(s + n - 1) : t \notin UsedSlots(segs)}

OsKeys(segs) == {seg.key : seg \in segs}

\* key 0 is IPC_PRIVATE: shmget never looks it up and always makes a new
\* segment, which no key finds again
IPC_PRIVATE == 0

\* shmget(key, size, IPC_CREAT | IPC_EXCL | SHM_HUGETLB): the key is looked up
\* first, the size is checked when the segment is made
\* (size a size_t, free < 2^21 hugepages being available)
shmget_create(segs, free, key, size) ==
  IF key # IPC_PRIVATE /\ key \in OsKeys(segs) THEN "EEXIST"
  ELSE IF IsZero64(size) THEN "EINVAL"
  ELSE IF size.c2 > 0 \/ size.c1 > free THEN "ENOMEM"
  ELSE "OK"

\* shmget(key, 0, 0): the segment of that key, or an error; with IPC_PRIVATE
\* it asks for a new segment of 0 bytes
shmget_find(segs, key) ==
  IF key = IPC_PRIVATE THEN "EINVAL"
  ELSE IF key \notin OsKeys(segs) THEN "ENOENT"
  ELSE "OK"

(* ---------------- reserve_hugepages ---------------- *)
\* SlowRand: next_u64() hands out the state and steps it through the key space
next_u64(rand) == [value |-> rand, rand |-> (rand + 1) % (MaxKey + 1)]

\* the while (true) loop of reserve_hugepages: draw keys until shmget answers
\* something other than EEXIST; [err, key, rand]
RECURSIVE shmget_loop(_, _, _, _)
shmget_loop(segs, free, size, rand) ==
  LET draw == next_u64(rand)
      err == shmget_create(segs, free, draw.value, size)
  IN IF err = "EEXIST" THEN shmget_loop(segs, free, size, draw.rand)
     ELSE [err |-> err, key |-> draw.value, rand |-> draw.rand]

\* the loop ends only if shmget answers something other than EEXIST for some
\* key
LoopEnds(segs, size_arg) ==
  \E key \in KeySpace :
    shmget_create(segs, 0, key, round_up64(size_arg)) # "EEXIST"

\* shmat(shm_id, nullptr, 0) when the OS maps at slot: the address, or -1 if
\* the segment does not fit there
shmat(segs, size, slot) ==
  IF slot \in FreeSlotsFor(segs, size \div kHugepageSize)
  THEN slot * kHugepageSize ELSE -1

\* mbind(shm_buf, size, MPOL_BIND, 1 << numa_node): 0 or -1
mbind(shm_buf, node) == IF shm_buf # -1 /\ node \in OsNodes THEN 0 ELSE -1

\* Outcome of reserve_hugepages(size, numa_node) when the OS maps the segment
\* at slot.
\*   res = "true"   the region was registered
\*   res = "false"  ENOMEM
\*   res = "throw"  runtime_error
\*   res = "exit"   exit(-1) after shmat/mbind failure
reserve_hugepages(segs, free, size_arg, node, rand, slot) ==
  LET size == round_up64(size_arg)
      got == shmget_loop(segs, free, size, rand)
      \* a segment that was made has fewer than 2^31 bytes here
      bytes == size.c1 * kHugepageSize
      shm_buf == shmat(segs, bytes, slot)
      seg == [key |-> got.key, base |-> shm_buf, size |-> bytes]
  IN IF got.err = "ENOMEM"
     THEN [res |-> "false", err |-> got.err, rand |-> got.rand]
     ELSE IF got.err # "OK"
     THEN [res |-> "throw", err |-> got.err, rand |-> got.rand]
     ELSE IF shm_buf = nullptr
     THEN [res |-> "exit", err |-> "shmat", rand |-> got.rand, seg |-> seg]
     ELSE IF mbind(shm_buf, node) # 0
     THEN [res |-> "exit", err |-> "mbind", rand |-> got.rand, seg |-> seg]
     ELSE [res |-> "true", err |-> "OK", rand |-> got.rand, seg |-> seg,
           region |-> shm_region_t(got.key, shm_buf, bytes)]

\* the slots the OS can map a segment of round_up(size_arg) bytes at (0: none)
ReserveChoices(segs, size_arg) ==
  LET size == round_up64(size_arg)
  IN IF size.c2 > 0 \/ size.c1 = 0 \/ FreeSlotsFor(segs, size.c1) = {}
     THEN {0} ELSE FreeSlotsFor(segs, size.c1)

Init ==
  /\ status = "none"
  /\ numa_node = 0
  /\ shm_list = <<>>
  /\ page_freelist = <<>>
  /\ tot_free_hugepages = 0
  /\ prev_allocation_size = U64(0)
  /\ tot_memory_reserved = 0
  /\ tot_memory_allocated = 0
  /\ os_free \in 0..OsHugepages
  /\ os_segs = {}
  /\ os_slots = MaxSlot
  /\ slow_rand = 0
  /\ last_op = "none"
  /\ last_arg = 0
  /\ ret = nullptr
  /\ acq = "none"
  /\ live_pages = EmptyBag
  /\ huge_bufs = <<>>
  /\ freed = <<>>
  /\ created = <<>>
  /\ rm_log = <<>>
  /\ dt_log = <<>>
  /\ regions_wide = <<>>
  /\ pages_wide = <<>>
  /\ arg_wide = <<>>

\* HugeAllocator(initial_size, numa_node)
Construct(initial_size, node) ==
  /\ status = "none"
  /\ \E seed \in RandSeeds, slot \in ReserveChoices(os_segs, U64(initial_size)) :
       LET r == reserve_hugepages(os_segs, os_free, U64(initial_size), node,
                                  seed, slot)
       IN /\ numa_node' = node
          /\ slow_rand' = r.rand
          /\ prev_allocation_size' = U64(initial_size)
          /\ tot_memory_allocated' = 0
          /\ page_freelist' = <<>>
          /\ acq' = r.err
          /\ IF r.res = "true"
             THEN /\ shm_list' = <<r.region>>
                  /\ tot_free_hugepages' = r.region.free_hugepages
                  /\ tot_memory_reserved' = r.region.size
                  /\ os_free' = os_free - r.region.free_hugepages
                  /\ os_segs' = os_segs \cup {r.seg}
                  /\ created' = <<r.region>>
                  /\ status' = "live"
             ELSE /\ shm_list' = <<>>
                  /\ tot_free_hugepages' = 0
                  /\ tot_memory_reserved' = 0
                  /\ created' = <<>>
                  /\ IF r.res = "exit"
                     THEN /\ os_free' = os_free - r.seg.size \div kHugepageSize
                          /\ os_segs' = os_segs \cup {r.seg}
                     ELSE UNCHANGED os_vars
                  \* the return value of reserve_hugepages is not looked at
                  /\ status' = CASE r.res = "false" -> "live"
                                 [] r.res = "throw" -> "thrown"
                                 [] OTHER -> "exited"
  /\ last_op' = "new"
  /\ last_arg' = initial_size
  /\ ret' = nullptr
  /\ UNCHANGED <<live_pages, huge_bufs, freed, rm_log, dt_log, os_slots,
                 wide_vars>>

\* the allocator exists: it was constructed, and a runtime_error thrown by a
\* later call was caught
Callable == status = "live" \/ (status = "thrown" /\ last_op # "new")

\* an operation that does not get to the region acquirer
NoGrowth ==
  /\ acq' = "none"
  /\ UNCHANGED <<prev_allocation_size, tot_memory_reserved, created, os_vars,
                 slow_rand>>

\* what a call of reserve_hugepages with outcome r leaves behind, apart from
\* shm_list and tot_free_hugepages
Reserved(r) ==
  /\ acq' = r.err
  /\ slow_rand' = r.rand
  /\ IF r.res = "true"
     THEN /\ tot_memory_reserved' = tot_memory_reserved + r.region.size
          /\ created' = Append(created, r.region)
     ELSE UNCHANGED <<tot_memory_reserved, created>>
  /\ IF r.res \in {"true", "exit"}
     THEN /\ os_free' = os_free - r.seg.size \div kHugepageSize
          /\ os_segs' = os_segs \cup {r.seg}
     ELSE UNCHANGED os_vars

\* reserve_hugepages did not register a region: nullptr, runtime_error or exit
GrowthFailed(r) ==
  /\ status' = CASE r.res = "false" -> "live"
                 [] r.res = "throw" -> "thrown"
                 [] OTHER -> "exited"
  /\ ret' = nullptr
  /\ UNCHANGED <<shm_list, tot_free_hugepages, page_freelist,
                 tot_memory_allocated, live_pages, huge_bufs, freed>>

\* mutant: the page is taken from the front of the freelist
freelist_pop_front(freelist) == [page |-> Head(freelist), rest |-> Tail(freelist)]

\* free_page = page_freelist.back(); page_freelist.pop_back()
freelist_pop(freelist) == [page |-> Last(freelist), rest |-> Front(freelist)]

\* index of the first region with a free hugepage, 0 if there is none
FirstFree(list) ==
  IF \E i \in 1..Len(list) : list[i].free_hugepages > 0
  THEN CHOOSE i \in 1..Len(list) :
         /\ list[i].free_hugepages > 0
         /\ \A j \in 1..(i - 1) : list[j].free_hugepages = 0
  ELSE 0

\* mutant: the loop steps by 1 KiB
CarvedPages_step_1k(cur_buf) ==
  [j \in 1..((kHugepageSize + kPageSize - 1) \div kPageSize) |->
     cur_buf + (j - 1) * 1024]

\* mutant: the loop runs from the high end down
CarvedPages_descending(cur_buf) ==
  [j \in 1..((kHugepageSize + kPageSize - 1) \div kPageSize) |->
     cur_buf + kHugepageSize - j * kPageSize]

\* for (i = 0; i < kHugepageSize; i += kPageSize) push_back(cur_buf + i)
CarvedPages(cur_buf) ==
  [j \in 1..((kHugepageSize + kPageSize - 1) \div kPageSize) |->
     cur_buf + (j - 1) * kPageSize]

\* alloc_page, lines 114-134: carve the first region of list that has a free
\* hugepage; tf is tot_free_hugepages at that point
CarveAndPop(list, tf) ==
  LET idx == FirstFree(list)
  IN IF idx = 0
     THEN /\ status' = "exited"
          /\ ret' = nullptr
          /\ shm_list' = list
          /\ tot_free_hugepages' = tf
          /\ UNCHANGED <<page_freelist, tot_memory_allocated, live_pages, freed>>
     ELSE LET p == freelist_pop(page_freelist \o CarvedPages(list[idx].cur_buf))
          IN /\ status' = "live"
             /\ shm_list' = [list EXCEPT ![idx] = pop_hugepages(@, 1)]
             /\ tot_free_hugepages' = tf - 1
             /\ ret' = p.page
             /\ page_freelist' = p.rest
             /\ tot_memory_allocated' = tot_memory_allocated + kPageSize
             /\ live_pages' = live_pages (+) SetToBag({p.page})
             /\ UNCHANGED freed

\* mutant: grows although one hugepage is still free
NeedsGrowth_le_1(tot_free) == tot_free <= 1

\* mutant: the acquirer is never called
NeedsGrowth_never(tot_free) == FALSE

\* if (tot_free_hugepages == 0): the acquirer has to be called
NeedsGrowth(tot_free) == tot_free = 0

\* void *alloc_page()
AllocPage ==
  /\ Callable
  /\ last_op' = "alloc_page"
  /\ last_arg' = 0
  /\ UNCHANGED <<numa_node, huge_bufs, log_vars, os_slots, wide_vars>>
  /\ IF page_freelist # <<>>
     THEN /\ ret' = freelist_pop(page_freelist).page
          /\ page_freelist' = freelist_pop(page_freelist).rest
          /\ tot_memory_allocated' = tot_memory_allocated + kPageSize
          /\ live_pages' = live_pages (+) SetToBag({ret'})
          /\ freed' = IF freed = <<>> THEN freed ELSE Front(freed)
          /\ NoGrowth
          /\ status' = "live"
          /\ UNCHANGED <<shm_list, tot_free_hugepages>>
     ELSE IF NeedsGrowth(tot_free_hugepages)
     THEN /\ prev_allocation_size' = Double64(prev_allocation_size)
          /\ LoopEnds(os_segs, Double64(prev_allocation_size))
          /\ \E slot \in ReserveChoices(os_segs,
                                        Double64(prev_allocation_size)) :
               LET r == reserve_hugepages(os_segs, os_free,
                                          Double64(prev_allocation_size),
                                          numa_node, slow_rand, slot)
               IN /\ Reserved(r)
                  /\ IF r.res = "true"
                     THEN CarveAndPop(Append(shm_list, r.region),
                                      tot_free_hugepages
                                        + r.region.size \div kHugepageSize)
                     ELSE GrowthFailed(r)
     ELSE /\ NoGrowth
          /\ CarveAndPop(shm_list, tot_free_hugepages)

\* mutant: tot_memory_allocated is not decremented
free_page_keeps_total(freelist, allocated, page) ==
  [freelist |-> Append(freelist, page), allocated |-> allocated]

\* mutant: the page is pushed twice
free_page_pushes_twice(freelist, allocated, page) ==
  [freelist |-> Append(Append(freelist, page), page),
   allocated |-> allocated - kPageSize]

\* free_page: push_back(page); tot_memory_allocated -= kPageSize
free_page(freelist, allocated, page) ==
  [freelist |-> Append(freelist, page), allocated |-> allocated - kPageSize]

\* free_page(page) for a page handed out by alloc_page and not freed since
FreePage(page) ==
  /\ Callable
  /\ status' = "live"
  /\ BagIn(page, live_pages)
  /\ page_freelist' = free_page(page_freelist, tot_memory_allocated, page).freelist
  /\ tot_memory_allocated' =
       free_page(page_freelist, tot_memory_allocated, page).allocated
  /\ live_pages' = live_pages (-) SetToBag({page})
  /\ freed' = Append(freed, page)
  /\ last_arg' = page
  /\ last_op' = "free_page"
  /\ ret' = nullptr
  /\ NoGrowth
  /\ UNCHANGED <<numa_node, shm_list, tot_free_hugepages, huge_bufs,
                 log_vars, os_slots, wide_vars>>

\* mutant: any region with a free hugepage is taken
FirstFit_any_free(list, n) ==
  IF \E i \in 1..Len(list) : list[i].free_hugepages >= 1
  THEN CHOOSE i \in 1..Len(list) :
         /\ list[i].free_hugepages >= 1
         /\ \A j \in 1..(i - 1) : list[j].free_hugepages < 1
  ELSE 0

\* mutant: the last region with at least n free hugepages is taken
FirstFit_last(list, n) ==
  IF \E i \in 1..Len(list) : list[i].free_hugepages >= n
  THEN CHOOSE i \in 1..Len(list) :
         /\ list[i].free_hugepages >= n
         /\ \A j \in (i + 1)..Len(list) : list[j].free_hugepages < n
  ELSE 0

\* index of the first region with at least n free hugepages, 0 if none
FirstFit(list, n) ==
  IF \E i \in 1..Len(list) : list[i].free_hugepages >= n
  THEN CHOOSE i \in 1..Len(list) :
         /\ list[i].free_hugepages >= n
         /\ \A j \in 1..(i - 1) : list[j].free_hugepages < n
  ELSE 0

\* mutant: the loop is left out, the size is doubled once
DoubleUntil_once(prev, size) == [hangs |-> FALSE, prev |-> prev]

\* while (prev_allocation_size < size) prev_allocation_size *= 2, for
\* size > 0: at 0 the loop goes on for ever, doubling 0 to 0
RECURSIVE DoubleUntil(_, _)
DoubleUntil(prev, size) ==
  IF IsZero64(prev) THEN [hangs |-> TRUE, prev |-> prev]
  ELSE IF Less64(prev, size) THEN DoubleUntil(Double64(prev), size)
  ELSE [hangs |-> FALSE, prev |-> prev]

\* alloc_huge, lines 153-157 and 181-186: bump region idx of list by n
HugeBump(list, idx, n, size, size_arg) ==
  /\ status' = "live"
  /\ ret' = list[idx].cur_buf
  /\ shm_list' = [list EXCEPT ![idx] = pop_hugepages(@, n)]
  /\ tot_memory_allocated' = tot_memory_allocated + size
  /\ huge_bufs' = Append(huge_bufs, [addr |-> ret', size |-> size_arg])
  /\ UNCHANGED <<page_freelist, live_pages, freed>>

\* void *alloc_huge(size_t size)
AllocHuge(size_arg) ==
  /\ Callable
  /\ size_arg >= kHugepageSize
  /\ (size_arg + kHugepageSize - 1) \div kHugepageSize <= kMaxAllocHugepages
  /\ last_op' = "alloc_huge"
  /\ last_arg' = size_arg
  /\ UNCHANGED <<numa_node, log_vars, os_slots, wide_vars>>
  /\ LET size == round_up(size_arg)
         reqd_hugepages == size \div kHugepageSize
         idx == FirstFit(shm_list, reqd_hugepages)
         grown == DoubleUntil(Double64(prev_allocation_size), U64(size))
     IN IF idx # 0
        THEN /\ HugeBump(shm_list, idx, reqd_hugepages, size, size_arg)
             /\ tot_free_hugepages' = tot_free_hugepages - reqd_hugepages
             /\ NoGrowth
        ELSE IF grown.hangs
        \* the call does not return; the endless loop has no side effect
        \* (undefined behaviour), so the member holds the 0 stored at line
        \* 165 or, the store kept in a register, still its old value
        THEN /\ status' = "hung"
             /\ prev_allocation_size' \in {prev_allocation_size, grown.prev}
             /\ acq' = "none"
             /\ ret' = nullptr
             /\ UNCHANGED <<shm_list, tot_free_hugepages, page_freelist,
                            tot_memory_reserved, tot_memory_allocated,
                            live_pages, huge_bufs, freed, created, os_vars,
                            slow_rand>>
        ELSE /\ prev_allocation_size' = grown.prev
             /\ LoopEnds(os_segs, grown.prev)
             /\ \E slot \in ReserveChoices(os_segs, grown.prev) :
                  LET r == reserve_hugepages(os_segs, os_free, grown.prev,
                                             numa_node, slow_rand, slot)
                  IN /\ Reserved(r)
                     /\ IF r.res = "true"
                        THEN /\ HugeBump(Append(shm_list, r.region),
                                         Len(shm_list) + 1, reqd_hugepages, size,
                                         size_arg)
                             /\ tot_free_hugepages' =
                                  tot_free_hugepages
                                    + r.region.size \div kHugepageSize
                                    - reqd_hugepages
                        ELSE GrowthFailed(r)

\* delete_shm(shm_key, shm_buf) on the OS state st = [segs, free, rm, dt, ok]
delete_shm(st, shm_key, shm_buf) ==
  IF ~st.ok THEN st
  ELSE IF shmget_find(st.segs, shm_key) # "OK"
  THEN [st EXCEPT !.ok = FALSE]
  ELSE LET seg == CHOOSE s \in st.segs : s.key = shm_key
       IN IF seg.base # shm_buf
          THEN [st EXCEPT !.rm = Append(@, shm_key),
                          !.ok = FALSE]
          ELSE [segs |-> st.segs \ {seg},
                free |-> st.free + seg.size \div kHugepageSize,
                rm |-> Append(st.rm, shm_key),
                dt |-> Append(st.dt, shm_buf),
                ok |-> TRUE]

\* mutant: the list is walked from the back
RECURSIVE DeleteAll_reverse(_, _, _)
DeleteAll_reverse(st, list, i) ==
  IF i > Len(list) THEN st
  ELSE DeleteAll_reverse(delete_shm(st, list[Len(list) + 1 - i].key,
                                    list[Len(list) + 1 - i].base_buf),
                         list, i + 1)

\* for (shm_region_t &shm_region : shm_list) delete_shm(key, base_buf)
RECURSIVE DeleteAll(_, _, _)
DeleteAll(st, list, i) ==
  IF i > Len(list) THEN st
  ELSE DeleteAll(delete_shm(st, list[i].key, list[i].base_buf), list, i + 1)

\* ~HugeAllocator()
Destroy ==
  /\ Callable
  /\ LET st == DeleteAll([segs |-> os_segs, free |-> os_free, rm |-> rm_log,
                          dt |-> dt_log, ok |-> TRUE], shm_list, 1)
     IN /\ os_segs' = st.segs
        /\ os_free' = st.free
        /\ rm_log' = st.rm
        /\ dt_log' = st.dt
        /\ status' = IF st.ok THEN "destroyed" ELSE "exited"
        \* exit(-1) in delete_shm ends the process inside the loop
        /\ IF st.ok
           THEN /\ shm_list' = <<>>
                /\ page_freelist' = <<>>
                /\ live_pages' = EmptyBag
                /\ huge_bufs' = <<>>
                /\ freed' = <<>>
           ELSE UNCHANGED <<shm_list, page_freelist, live_pages, huge_bufs,
                            freed>>
  /\ last_op' = "destroy"
  /\ last_arg' = 0
  /\ ret' = nullptr
  /\ acq' = "none"
  /\ UNCHANGED <<numa_node, tot_free_hugepages, prev_allocation_size,
                 tot_memory_reserved, tot_memory_allocated, created, slow_rand,
                 os_slots, wide_vars>>

\* size_t get_reserved_memory()
get_reserved_memory == tot_memory_reserved

\* size_t get_allocated_memory()
get_allocated_memory == tot_memory_allocated

(* ---------------- specifications ---------------- *)
\* Spec: every operation at every point, with at most MaxLivePages pages live
\* and at most MaxFreed freed pages waiting to be handed out again.
Next ==
  \/ \E sz \in InitialSizes, nd \in NumaNodes : Construct(sz, nd)
  \/ BagCardinality(live_pages) < MaxLivePages /\ AllocPage
  \/ \E page \in BagToSet(live_pages) : Len(freed) < MaxFreed /\ FreePage(page)
  \/ \E sz \in HugeSizes : AllocHuge(sz)
  \/ Destroy

Spec == Init /\ [][Next]_vars

\* the least element of a non-empty set of integers
MinOf(S) == CHOOSE p \in S : \A q \in S : p <= q

\* the lowest and the highest live page
LowHighLive ==
  LET live == BagToSet(live_pages)
  IN IF live = {} THEN {}
     ELSE {MinOf(live), 0 - MinOf({0 - p : p \in live})}

\* SpecDeep: any number of live pages, so that hugepages are used up page by
\* page; between two alloc_page calls the other operations are tried where
\* the page freelist is empty, free_page on the lowest and highest live page.
NextDeep ==
  \/ \E sz \in DeepInitialSizes, nd \in NumaNodes : Construct(sz, nd)
  \/ AllocPage
  \/ \E page \in LowHighLive :
       page_freelist = <<>> /\ Len(freed) < MaxFreed /\ FreePage(page)
  \/ \E sz \in DeepHugeSizes : page_freelist = <<>> /\ AllocHuge(sz)
  \/ page_freelist = <<>> /\ Destroy

SpecDeep == Init /\ [][NextDeep]_vars

\* SpecHuge: a machine with HugeOsHugepages hugepages, all free, and
\* HugeMaxSlot slots, so that alloc_huge finds several regions with free
\* hugepages; initial sizes include one that is not a multiple of 2 MiB.
InitHuge ==
  /\ status = "none"
  /\ numa_node = 0
  /\ shm_list = <<>>
  /\ page_freelist = <<>>
  /\ tot_free_hugepages = 0
  /\ prev_allocation_size = U64(0)
  /\ tot_memory_reserved = 0
  /\ tot_memory_allocated = 0
  /\ os_free = HugeOsHugepages
  /\ os_segs = {}
  /\ os_slots = HugeMaxSlot
  /\ slow_rand = 0
  /\ last_op = "none"
  /\ last_arg = 0
  /\ ret = nullptr
  /\ acq = "none"
  /\ live_pages = EmptyBag
  /\ huge_bufs = <<>>
  /\ freed = <<>>
  /\ created = <<>>
  /\ rm_log = <<>>
  /\ dt_log = <<>>
  /\ regions_wide = <<>>
  /\ pages_wide = <<>>
  /\ arg_wide = <<>>

NextHuge ==
  \/ \E sz \in HugeInitialSizes, nd \in OsNodes : Construct(sz, nd)
  \/ BagCardinality(live_pages) < HugeMaxLivePages /\ AllocPage
  \/ \E page \in BagToSet(live_pages) : Len(freed) < MaxFreed /\ FreePage(page)
  \/ \E sz \in HugeSizes : AllocHuge(sz)
  \/ Destroy

SpecHuge == InitHuge /\ [][NextHuge]_vars

(* ---------------- the allocator on a large machine ---------------- *)
\* SpecWide: a machine with thousands of hugepages.  Regions are kept as
\* hugepage counts and pages are counted; addresses are left to Spec.
\* the segments of the machine of SpecWide are the regions of the allocator
WideSegs(list) == {list[i] : i \in 1..Len(list)}

\* reserve_hugepages(size, numa_node), shmat and mbind succeeding
reserve_hugepages_wide(segs, free, size_arg, rand) ==
  LET size == round_up64(size_arg)
      got == shmget_loop(segs, free, size, rand)
  IN IF got.err = "ENOMEM"
     THEN [res |-> "false", err |-> got.err, rand |-> got.rand]
     ELSE IF got.err # "OK"
     THEN [res |-> "throw", err |-> got.err, rand |-> got.rand]
     ELSE [res |-> "true", err |-> got.err, rand |-> got.rand,
           region |-> [key |-> got.key, hugepages |-> size.c1,
                       free_hugepages |-> size.c1]]

\* 0 < size <= kMaxAllocSize
InAllocRange(size) ==
  /\ ~IsZero64(size)
  /\ size.c2 = 0
  /\ size.c1 < kMaxAllocHugepages
       \/ (size.c1 = kMaxAllocHugepages /\ size.c0 = 0)

\* what SpecWide leaves alone
narrow_vars == <<numa_node, shm_list, page_freelist,
                 tot_memory_reserved, tot_memory_allocated, os_segs, os_slots,
                 last_arg, ret, live_pages, huge_bufs, freed,
                 created, rm_log, dt_log>>

\* HugeAllocator(initial_size, numa_node)
ConstructWide(initial_size) ==
  /\ status = "none"
  /\ InAllocRange(initial_size)
  /\ prev_allocation_size' = initial_size
  /\ arg_wide' = <<>>
  /\ pages_wide' = [freelist |-> 0, live |-> 0]
  /\ last_op' = "new"
  /\ \E seed \in RandSeeds :
       LET r == reserve_hugepages_wide({}, os_free, initial_size, seed)
       IN /\ acq' = r.err
          /\ slow_rand' = r.rand
          /\ IF r.res = "true"
             THEN /\ regions_wide' = <<r.region>>
                  /\ tot_free_hugepages' = r.region.hugepages
                  /\ os_free' = os_free - r.region.hugepages
                  /\ status' = "live"
             ELSE /\ regions_wide' = <<>>
                  /\ tot_free_hugepages' = 0
                  /\ os_free' = os_free
                  /\ status' = IF r.res = "false" THEN "live" ELSE "thrown"
  /\ UNCHANGED narrow_vars

\* alloc_page, lines 114-134, on hugepage counts: the first region of list
\* with a free hugepage gives one up, its 512 pages go to the freelist and the
\* last of them is handed out
CarveAndPopWide(list, tf) ==
  LET idx == FirstFree(list)
  IN IF idx = 0
     THEN /\ status' = "exited"
          /\ regions_wide' = list
          /\ tot_free_hugepages' = tf
          /\ UNCHANGED pages_wide
     ELSE /\ status' = "live"
          /\ regions_wide' = [list EXCEPT ![idx].free_hugepages = @ - 1]
          /\ tot_free_hugepages' = tf - 1
          /\ pages_wide' =
               [freelist |-> pages_wide.freelist + kPagesPerHugepage - 1,
                live |-> pages_wide.live + 1]

\* void *alloc_page()
AllocPageWide ==
  /\ Callable
  /\ last_op' = "alloc_page"
  /\ arg_wide' = <<>>
  /\ UNCHANGED narrow_vars
  /\ IF pages_wide.freelist > 0
     THEN /\ pages_wide' = [freelist |-> pages_wide.freelist - 1,
                            live |-> pages_wide.live + 1]
          /\ acq' = "none"
          /\ status' = "live"
          /\ UNCHANGED <<prev_allocation_size, regions_wide,
                         tot_free_hugepages, os_free, slow_rand>>
     ELSE IF NeedsGrowth(tot_free_hugepages)
     THEN LET r == reserve_hugepages_wide(WideSegs(regions_wide), os_free,
                                          Double64(prev_allocation_size), slow_rand)
          IN /\ prev_allocation_size' = Double64(prev_allocation_size)
             /\ acq' = r.err
             /\ slow_rand' = r.rand
             /\ IF r.res = "true"
                THEN /\ os_free' = os_free - r.region.hugepages
                     /\ CarveAndPopWide(Append(regions_wide, r.region),
                                        tot_free_hugepages + r.region.hugepages)
                ELSE /\ status' = IF r.res = "false" THEN "live" ELSE "thrown"
                     /\ UNCHANGED <<regions_wide, tot_free_hugepages, os_free,
                                    pages_wide>>
     ELSE /\ acq' = "none"
          /\ CarveAndPopWide(regions_wide, tot_free_hugepages)
          /\ UNCHANGED <<prev_allocation_size, os_free, slow_rand>>

\* free_page(page) for a page handed out by alloc_page and not freed since
FreePageWide ==
  /\ Callable
  /\ pages_wide.live > 0
  /\ pages_wide' = [freelist |-> pages_wide.freelist + 1,
                    live |-> pages_wide.live - 1]
  /\ last_op' = "free_page"
  /\ arg_wide' = <<>>
  /\ acq' = "none"
  /\ status' = "live"
  /\ UNCHANGED <<prev_allocation_size, regions_wide, tot_free_hugepages,
                 os_free, slow_rand, narrow_vars>>

\* alloc_huge(size)
AllocHugeWide(size_arg) ==
  /\ Callable
  /\ size_arg.c2 > 0 \/ size_arg.c1 >= 1
  /\ InAllocRange(size_arg)
  /\ last_op' = "alloc_huge"
  /\ arg_wide' = round_up64(size_arg)
  /\ LET size == round_up64(size_arg)
         reqd_hugepages == size.c1
         idx == FirstFit(regions_wide, reqd_hugepages)
         grown == DoubleUntil(Double64(prev_allocation_size), size)
         r == reserve_hugepages_wide(WideSegs(regions_wide), os_free,
                                     grown.prev, slow_rand)
     IN IF idx # 0
        THEN /\ regions_wide' =
                  [regions_wide EXCEPT ![idx].free_hugepages = @ - reqd_hugepages]
             /\ tot_free_hugepages' = tot_free_hugepages - reqd_hugepages
             /\ acq' = "none"
             /\ status' = "live"
             /\ UNCHANGED <<prev_allocation_size, os_free, slow_rand>>
        ELSE IF grown.hangs
        \* as in AllocHuge: the member holds 0 or still its old value
        THEN /\ status' = "hung"
             /\ prev_allocation_size' \in {prev_allocation_size, grown.prev}
             /\ acq' = "none"
             /\ UNCHANGED <<regions_wide, tot_free_hugepages, os_free,
                            slow_rand>>
        ELSE /\ prev_allocation_size' = grown.prev
             /\ acq' = r.err
             /\ slow_rand' = r.rand
             /\ IF r.res = "true"
                THEN /\ regions_wide' =
                          Append(regions_wide,
                                 [r.region EXCEPT
                                    !.free_hugepages = @ - reqd_hugepages])
                     /\ tot_free_hugepages' =
                          tot_free_hugepages + r.region.hugepages
                            - reqd_hugepages
                     /\ os_free' = os_free - r.region.hugepages
                     /\ status' = "live"
                ELSE /\ status' = IF r.res = "false" THEN "live" ELSE "thrown"
                     /\ UNCHANGED <<regions_wide, tot_free_hugepages, os_free>>
  /\ UNCHANGED <<pages_wide, narrow_vars>>

\* delete_shm(shm_key, shm_buf) on st = [segs, free, ok], for a region
delete_shm_wide(st, region) ==
  IF ~st.ok THEN st
  ELSE IF shmget_find(st.segs, region.key) # "OK"
  THEN [st EXCEPT !.ok = FALSE]
  ELSE [segs |-> {seg \in st.segs : seg.key # region.key},
        free |-> st.free + region.hugepages,
        ok |-> TRUE]

\* for (shm_region_t &shm_region : shm_list) delete_shm(key, base_buf)
RECURSIVE DeleteAllWide(_, _, _)
DeleteAllWide(st, list, i) ==
  IF i > Len(list) THEN st
  ELSE DeleteAllWide(delete_shm_wide(st, list[i]), list, i + 1)

\* ~HugeAllocator()
DestroyWide ==
  /\ Callable
  /\ LET st == DeleteAllWide([segs |-> WideSegs(regions_wide),
                              free |-> os_free, ok |-> TRUE],
                             regions_wide, 1)
     IN /\ os_free' = st.free
        /\ status' = IF st.ok THEN "destroyed" ELSE "exited"
        /\ IF st.ok
           THEN /\ regions_wide' = <<>>
                /\ pages_wide' = [freelist |-> 0, live |-> 0]
           ELSE UNCHANGED <<regions_wide, pages_wide>>
  /\ last_op' = "destroy"
  /\ arg_wide' = <<>>
  /\ acq' = "none"
  /\ UNCHANGED <<prev_allocation_size, tot_free_hugepages, slow_rand, narrow_vars>>

\* hugepages of the machine of SpecWide
WideOsHugepages == 5121
\* pages live at a time under SpecWide
WideMaxLivePages == 1
\* initial sizes: 2 MiB, 3 MiB, 8 GiB + 1 byte
WideInitialSizes == {Wide(1, 0), Wide(1, 1048576), Wide(4096, 1)}
\* alloc_huge sizes: 2 GiB, 8 GiB + 1 byte
WideHugeSizes == {Wide(1024, 0), Wide(4096, 1)}

InitWide ==
  /\ status = "none"
  /\ numa_node = 0
  /\ shm_list = <<>>
  /\ page_freelist = <<>>
  /\ tot_free_hugepages = 0
  /\ prev_allocation_size = U64(0)
  /\ tot_memory_reserved = 0
  /\ tot_memory_allocated = 0
  /\ os_free \in {1, WideOsHugepages}
  /\ os_segs = {}
  /\ os_slots = MaxSlot
  /\ slow_rand = 0
  /\ last_op = "none"
  /\ last_arg = 0
  /\ ret = nullptr
  /\ acq = "none"
  /\ live_pages = EmptyBag
  /\ huge_bufs = <<>>
  /\ freed = <<>>
  /\ created = <<>>
  /\ rm_log = <<>>
  /\ dt_log = <<>>
  /\ regions_wide = <<>>
  /\ pages_wide = [freelist |-> 0, live |-> 0]
  /\ arg_wide = <<>>

NextWide ==
  \/ \E sz \in WideInitialSizes : ConstructWide(sz)
  \/ pages_wide.live < WideMaxLivePages /\ AllocPageWide
  \/ FreePageWide
  \/ \E sz \in WideHugeSizes : AllocHugeWide(sz)
  \/ DestroyWide

SpecWide == InitWide /\ [][NextWide]_vars

(* ======================= properties ======================= *)
LivePageSet == BagToSet(live_pages)
HugeBufSet == {huge_bufs[i] : i \in 1..Len(huge_bufs)}
\* bytes of the buffer alloc_huge(size) hands out
HugeLen(size) == ((size + kHugepageSize - 1) \div kHugepageSize) * kHugepageSize
\* [a, a + la) and [b, b + lb) have a byte in common
Overlap(a, la, b, lb) == a < b + lb /\ b < a + la

RECURSIVE SumSizes(_)
SumSizes(list) == IF list = <<>> THEN 0 ELSE list[1].size + SumSizes(Tail(list))
RECURSIVE SumFree(_)
SumFree(list) ==
  IF list = <<>> THEN 0 ELSE list[1].free_hugepages + SumFree(Tail(list))
RECURSIVE SumHuge(_)
SumHuge(bufs) == IF bufs = <<>> THEN 0 ELSE HugeLen(bufs[1].size) + SumHuge(Tail(bufs))

\* No page is live twice and no two live pages have a byte in common.  Two
\* pages overlap iff their addresses are less than kPageSize apart; for a
\* page at a multiple of kPageSize every such neighbour above it has the same
\* quotient by kPageSize, so those pages are covered by counting quotients.
PagesDisjoint ==
  /\ \A a \in LivePageSet : CopiesIn(a, live_pages) = 1
  /\ Cardinality({a \div kPageSize : a \in LivePageSet}) = Cardinality(LivePageSet)
  /\ \A a \in LivePageSet :
       \/ a % kPageSize = 0
       \/ \A b \in LivePageSet : b > a => ~Overlap(a, kPageSize, b, kPageSize)

\* C1: no two live allocations overlap: page/page, page/huge and huge/huge,
\* a page being 4 KiB at its address and a huge buffer round_up(size, 2 MiB)
\* bytes at its address.
C1_Disjoint ==
  status = "live" =>
    /\ PagesDisjoint
    /\ \A i \in 1..Len(huge_bufs) : \A a \in LivePageSet :
         ~Overlap(a, kPageSize, huge_bufs[i].addr, HugeLen(huge_bufs[i].size))
    /\ \A i \in 1..Len(huge_bufs) : \A j \in (i + 1)..Len(huge_bufs) :
         ~Overlap(huge_bufs[i].addr, HugeLen(huge_bufs[i].size),
                  huge_bufs[j].addr, HugeLen(huge_bufs[j].size))

\* pages of two regions and a huge buffer are live together
C1_Witness ==
  /\ status = "live"
  /\ Len(shm_list) >= 2
  /\ Len(huge_bufs) >= 1
  /\ BagCardinality(live_pages) > kPagesPerHugepage

AccountingInv ==
  /\ get_reserved_memory = SumSizes(shm_list)
  /\ get_reserved_memory % kHugepageSize = 0
  /\ get_allocated_memory =
       kPageSize * BagCardinality(live_pages) + SumHuge(huge_bufs)

NullKeepsTotals ==
  (last_op' \in {"alloc_page", "alloc_huge"} /\ ret' = nullptr)
    => /\ get_reserved_memory' = get_reserved_memory
       /\ get_allocated_memory' = get_allocated_memory

\* C2: after construction and every operation reserved_memory() is the sum of
\* the region sizes and a multiple of 2 MiB, allocated_memory() is 4 KiB per
\* live page plus the rounded size of every huge buffer, and a call that
\* returns null changes neither total.
C2_Accounting ==
  /\ [](status = "live" => AccountingInv)
  /\ [][NullKeepsTotals]_vars

\* pages and huge buffers are accounted together after a null return
C2_Witness ==
  /\ status = "live"
  /\ last_op = "alloc_huge" /\ ret = nullptr
  /\ live_pages # EmptyBag /\ huge_bufs # <<>>
  /\ tot_memory_allocated > kHugepageSize

\* the regions that hold the whole range [a, a + len)
Holding(a, len) ==
  {i \in 1..Len(shm_list) :
     /\ shm_list[i].base_buf <= a
     /\ a + len <= shm_list[i].base_buf + shm_list[i].size}
\* the regions whose range [base, base + size) has the address a
RegionsOf(a) ==
  {i \in 1..Len(shm_list) :
     /\ shm_list[i].base_buf <= a
     /\ a < shm_list[i].base_buf + shm_list[i].size}

\* C3: every returned address lies in exactly one region and the whole
\* buffer (4 KiB, or ceil(size / 2 MiB) hugepages) lies inside that region.
C3_Containment ==
  status = "live" =>
    /\ \A a \in LivePageSet :
         Cardinality(RegionsOf(a)) = 1 /\ Holding(a, kPageSize) = RegionsOf(a)
    /\ \A h \in HugeBufSet :
         /\ Cardinality(RegionsOf(h.addr)) = 1
         /\ Holding(h.addr, HugeLen(h.size)) = RegionsOf(h.addr)

\* a two-hugepage buffer sits in a region acquired by growth, next to pages
C3_Witness ==
  /\ status = "live"
  /\ last_op = "alloc_huge" /\ last_arg = MB(3) /\ acq = "OK"
  /\ ret = Last(shm_list).base_buf
  /\ live_pages # EmptyBag

\* C4: every address returned by alloc_page is divisible by 4 KiB and every
\* address returned by alloc_huge by 2 MiB.
C4_Alignment ==
  /\ \A a \in LivePageSet : a % kPageSize = 0
  /\ \A h \in HugeBufSet : h.addr % kHugepageSize = 0
  /\ (last_op = "alloc_page" /\ ret # nullptr) => ret % kPageSize = 0
  /\ (last_op = "alloc_huge" /\ ret # nullptr) => ret % kHugepageSize = 0

\* alloc_page has carved a region it acquired itself, next to a huge buffer
C4_Witness ==
  /\ last_op = "alloc_page" /\ ret # nullptr /\ acq = "OK"
  /\ huge_bufs # <<>>

\* C5: alloc_page hands out the page freed last and not handed out since
\* (so pages freed p1..pn come back pn..p1), without acquiring or carving.
C5_FreelistLifo ==
  [][(last_op' = "alloc_page" /\ freed # <<>>)
       => /\ ret' = freed[Len(freed)]
          /\ shm_list' = shm_list
          /\ acq' = "none"
          /\ tot_memory_reserved' = tot_memory_reserved]_vars

\* of two pages freed in a row the second has come back and the first waits
C5_Witness ==
  /\ last_op = "alloc_page" /\ ret # nullptr
  /\ Len(freed) = 1
  /\ BagCardinality(live_pages) >= 2

\* hugepages asked for by the alloc_huge call that ran last
LastReqd == HugeLen(last_arg) \div kHugepageSize

\* C6: a non-fatal alloc_page returns null exactly when the freelist is empty,
\* no region has a free hugepage and the acquirer answers out of memory; a
\* non-fatal alloc_huge(size) returns null exactly when no region has
\* ceil(size / 2 MiB) free hugepages and the acquirer answers out of memory.
C6_NullIffNoGrowth ==
  [][/\ (last_op' = "alloc_page" /\ status' = "live")
          => (ret' = nullptr <=> (/\ page_freelist = <<>>
                                  /\ SumFree(shm_list) = 0
                                  /\ acq' = "ENOMEM"))
     /\ (last_op' = "alloc_huge" /\ status' = "live")
          => (ret' = nullptr <=>
                (/\ \A i \in 1..Len(shm_list) :
                      shm_list[i].free_hugepages < LastReqd'
                 /\ acq' = "ENOMEM"))]_vars

\* alloc_huge came back null although a hugepage is free (too few for it)
C6_Witness ==
  /\ status = "live"
  /\ last_op = "alloc_huge" /\ ret = nullptr /\ acq = "ENOMEM"
  /\ SumFree(shm_list) > 0

\* C7: a constructor whose reservation is answered out of memory fails: the
\* caller does not get a constructed allocator.
C7_CtorOutOfMemoryFails ==
  (last_op = "new" /\ acq = "ENOMEM") => status # "live"

\* alloc_page with an empty freelist, no free hugepage and an OS out of hugepages
Exhausted ==
  /\ status = "live"
  /\ os_free = 0
  /\ page_freelist = <<>>
  /\ SumFree(shm_list) = 0

\* C8: with the OS out of hugepages, an alloc_page call with an empty
\* freelist and no free hugepage returns null, is not fatal and changes
\* neither the regions, the freelist, reserved nor allocated, however often it
\* has failed before; a page freed afterwards is handed out again.
C8_ExhaustionUsable ==
  [][/\ (last_op' = "alloc_page" /\ Exhausted)
          => /\ ret' = nullptr
             /\ status' = "live"
             /\ UNCHANGED <<shm_list, page_freelist, tot_memory_reserved,
                            tot_memory_allocated>>
     /\ (last_op' = "alloc_page" /\ status = "live" /\ os_free = 0
           /\ SumFree(shm_list) = 0 /\ freed # <<>>)
          => /\ ret' = freed[Len(freed)]
             /\ status' = "live"]_vars

\* the first region with a free hugepage, as alloc_page finds it after growth
CarvedRegion(list) ==
  CHOOSE i \in 1..Len(list) :
    /\ list[i].free_hugepages > 0
    /\ \A j \in 1..(i - 1) : list[j].free_hugepages = 0

\* C9: an alloc_page that carves (freelist empty on entry) returns the carved
\* hugepage's base + 2 MiB - 4 KiB, the base being the region's cursor before
\* the call, and the alloc_page calls that follow with no free_page in
\* between go down by 4 KiB each to the hugepage's base: with n pages of the
\* carve left after the call, the call returns the base + n * 4 KiB.
C9_CarveOrder ==
  [][(last_op' = "alloc_page" /\ ret' # nullptr /\ status' = "live")
       => /\ (page_freelist = <<>> /\ acq' = "none")
               => /\ ret' = shm_list[CarvedRegion(shm_list)].cur_buf
                              + kHugepageSize - kPageSize
                  /\ page_freelist'[1] = shm_list[CarvedRegion(shm_list)].cur_buf
                  /\ Len(page_freelist') = kPagesPerHugepage - 1
          /\ (page_freelist = <<>> /\ acq' = "OK")
               => /\ ret' = shm_list'[Len(shm_list')].base_buf
                              + kHugepageSize - kPageSize
                  /\ page_freelist'[1] = shm_list'[Len(shm_list')].base_buf
                  /\ Len(page_freelist') = kPagesPerHugepage - 1
          /\ (page_freelist # <<>> /\ freed = <<>>)
               => /\ page_freelist[1] % kHugepageSize = 0
                  /\ ret' = page_freelist[1] + Len(page_freelist') * kPageSize
                  /\ Len(page_freelist') = Len(page_freelist) - 1]_vars

\* the last page of the second carved hugepage has been handed out
C9_Witness ==
  /\ last_op = "alloc_page" /\ ret # nullptr
  /\ ret % kHugepageSize = 0
  /\ page_freelist = <<>>
  /\ BagCardinality(live_pages) = 2 * kPagesPerHugepage

\* C10: once the destructor has run, every region ever registered has been
\* marked for removal and detached, each once and none skipped, in the order
\* they were acquired, and the OS holds no segment of the allocator.
C10_TeardownInOrder ==
  last_op = "destroy" =>
    /\ rm_log = [i \in 1..Len(created) |-> created[i].key]
    /\ dt_log = [i \in 1..Len(created) |-> created[i].base_buf]
    /\ os_segs = {}

\* cursor, free_hugepages and size of a region agree
RegionWellFormed(r) ==
  /\ r.cur_buf = r.base_buf + (r.size - r.free_hugepages * kHugepageSize)
  /\ r.free_hugepages * kHugepageSize <= r.size
  /\ r.cur_buf <= r.base_buf + r.size

\* C11: every region has cursor = base + (size - free_hugepages * 2 MiB),
\* free_hugepages * 2 MiB <= size and cursor <= base + size, and a region was
\* registered with cursor = base and free_hugepages = size / 2 MiB.
C11_RegionWellFormed ==
  /\ \A i \in 1..Len(shm_list) : RegionWellFormed(shm_list[i])
  /\ \A i \in 1..Len(created) :
       /\ created[i].cur_buf = created[i].base_buf
       /\ created[i].free_hugepages * kHugepageSize = created[i].size

\* a region of two hugepages is half used, next to a second region
C11_Witness ==
  /\ status = "live"
  /\ Len(shm_list) = 2
  /\ \E i \in 1..Len(shm_list) :
       /\ shm_list[i].free_hugepages = 1
       /\ shm_list[i].size = 2 * kHugepageSize
       /\ shm_list[i].cur_buf = shm_list[i].base_buf + kHugepageSize

\* the regions with at least n free hugepages
Sufficient(n) == {i \in 1..Len(shm_list) : shm_list[i].free_hugepages >= n}

\* C12: alloc_huge for k = ceil(size / 2 MiB) hugepages takes the buffer from
\* the first region in insertion order with free_hugepages >= k: it returns
\* that region's cursor, moves the cursor by k * 2 MiB, lowers free_hugepages
\* by k, acquires nothing and leaves the other regions alone; only if no
\* region has k free hugepages it calls the acquirer (every call that comes
\* back has then called it), and the buffer is the start of the region
\* appended.
C12_FirstFit ==
  [][(last_op' = "alloc_huge")
       => LET k == LastReqd'
              suff == Sufficient(k)
          IN /\ suff # {}
                  => LET idx == MinOf(suff)
                     IN /\ ret' = shm_list[idx].cur_buf
                        /\ shm_list' =
                             [shm_list EXCEPT
                                ![idx].cur_buf = @ + k * kHugepageSize,
                                ![idx].free_hugepages = @ - k]
                        /\ acq' = "none"
                        /\ os_segs' = os_segs
                        /\ tot_memory_reserved' = tot_memory_reserved
             /\ (suff = {} /\ status' # "hung") => acq' # "none"
             /\ (suff = {} /\ ret' # nullptr)
                  => /\ Len(shm_list') = Len(shm_list) + 1
                     /\ SubSeq(shm_list', 1, Len(shm_list)) = shm_list
                     /\ Last(shm_list').key \notin OsKeys(os_segs)
                     /\ ret' = Last(shm_list').base_buf
                     /\ Last(shm_list').cur_buf = ret' + k * kHugepageSize
                     /\ Last(shm_list').free_hugepages =
                          Last(shm_list').size \div kHugepageSize - k]_vars

\* alloc_huge took the buffer from the first of two regions that both had
\* enough free hugepages
C12_Witness ==
  /\ status = "live"
  /\ last_op = "alloc_huge" /\ acq = "none" /\ ret # nullptr
  /\ Len(shm_list) = 2
  /\ ret + LastReqd * kHugepageSize = shm_list[1].cur_buf
  /\ shm_list[2].free_hugepages >= LastReqd
  /\ shm_list[2].cur_buf > shm_list[2].base_buf

\* bits of a size_t
kSizeBits == 64

\* x doubled j times on size_t
RECURSIVE TimesPow2(_, _)
TimesPow2(x, j) ==
  IF j = 0 \/ IsZero64(x) THEN x ELSE TimesPow2(Double64(x), j - 1)

\* x < 2^63: 2 * x is a size_t
DoublingFits(x) == x.c2 < kHugepageSize

\* new is old doubled at least once, and no more often than needed to reach
\* at_least
LeastDoubling(new, old, at_least) ==
  \E j \in 1..kSizeBits :
    /\ new = TimesPow2(old, j)
    /\ \A i \in 0..(j - 1) : DoublingFits(TimesPow2(old, i))
    /\ ~Less64(new, at_least)
    /\ j = 1 \/ Less64(TimesPow2(old, j - 1), at_least)

\* the growth rule, the requirement of alloc_huge(size) being need(size), for
\* a last_reservation below 2^63
GrowthRule(need(_)) ==
  /\ (last_op' = "alloc_page" /\ acq' # "none"
        /\ DoublingFits(prev_allocation_size))
       => /\ prev_allocation_size' = Double64(prev_allocation_size)
          /\ ~Less64(prev_allocation_size', prev_allocation_size)
  /\ (last_op' = "alloc_huge" /\ acq' # "none"
        /\ DoublingFits(prev_allocation_size))
       => LeastDoubling(prev_allocation_size', prev_allocation_size,
                        U64(need(last_arg')))
  /\ (last_op' \in {"alloc_page", "alloc_huge"} /\ acq' = "OK")
       => /\ Len(created') = Len(created) + 1
          /\ U64(Last(created').size) = round_up64(prev_allocation_size')
  /\ (last_op' = "alloc_page" /\ acq' = "OK"
        /\ prev_allocation_size = U64(MB(2)) /\ tot_memory_reserved = MB(2))
       => /\ prev_allocation_size' = U64(MB(4))
          /\ get_reserved_memory' = MB(6)

\* the requirement is the size the caller passed
RawNeed(size) == size

C14_LastReservationIsLastRegion ==
  /\ [](status = "live" /\ last_op = "new"
          => prev_allocation_size = U64(last_arg))
  /\ [](status = "live" /\ Len(created) >= 2
          => prev_allocation_size = U64(Last(created).size))
  /\ [][(status = "live" /\ status' = "live" /\ Len(created) = 1
           /\ Len(created') = 1)
          => prev_allocation_size' = prev_allocation_size]_vars

\* the sizes of the regions in insertion order, in hugepages
RegionHugepages ==
  [i \in 1..Len(shm_list) |-> shm_list[i].size \div kHugepageSize]
    \o [i \in 1..Len(regions_wide) |-> regions_wide[i].hugepages]

\* free hugepages of the regions in insertion order
RegionFree ==
  [i \in 1..Len(shm_list) |-> shm_list[i].free_hugepages]
    \o [i \in 1..Len(regions_wide) |-> regions_wide[i].free_hugepages]

\* C15: the region list is non-decreasing by size (size(i) <= size(j) for
\* i < j in insertion order), so the region alloc_huge picks first-fit is one
\* of least size among the regions with enough free hugepages.
C15_SizesNonDecreasing ==
  /\ [](\A i \in 1..Len(RegionHugepages) : \A j \in i..Len(RegionHugepages) :
          RegionHugepages[i] <= RegionHugepages[j])
  /\ [][(last_op' = "alloc_huge" /\ acq' = "none" /\ status' = "live")
          => \E i \in 1..Len(RegionFree) :
               /\ RegionFree'[i] < RegionFree[i]
               /\ \A j \in 1..Len(RegionFree) :
                    RegionFree[j] >= RegionFree[i] - RegionFree'[i]
                      => RegionHugepages[i] <= RegionHugepages[j]]_vars

FreelistSet == {page_freelist[i] : i \in 1..Len(page_freelist)}

\* C16: every address in page_freelist is 4 KiB aligned, lies in
\* [base, cursor) of exactly one region, is in the freelist once, is not a
\* live page and not inside a buffer returned by alloc_huge (callers free
\* live pages only).
C16_FreelistInv ==
  /\ \A a \in FreelistSet : a % kPageSize = 0
  /\ \A a \in FreelistSet :
       Cardinality({i \in 1..Len(shm_list) :
                      /\ shm_list[i].base_buf <= a
                      /\ a < shm_list[i].cur_buf}) = 1
  /\ Cardinality(FreelistSet) = Len(page_freelist)
  /\ FreelistSet \cap LivePageSet = {}
  /\ \A a \in FreelistSet : \A i \in 1..Len(huge_bufs) :
       ~(huge_bufs[i].addr <= a
           /\ a < huge_bufs[i].addr + HugeLen(huge_bufs[i].size))

\* freed pages lie on top of carved ones, next to live pages and a huge
\* buffer, in an allocator of two regions
C16_Witness ==
  /\ status = "live"
  /\ Len(freed) = 2
  /\ Len(page_freelist) > kPagesPerHugepage - MaxLivePages
  /\ live_pages # EmptyBag
  /\ huge_bufs # <<>>
  /\ Len(shm_list) = 2

\* C17: a step of alloc_page, free_page or alloc_huge removes and reorders no
\* region and changes no region's key, base or size; no cursor decreases and
\* no free_hugepages increases; free_page, and alloc_page when the freelist
\* is not empty, leave the regions, reserved and last_reservation unchanged.
C17_AppendOnlyMonotone ==
  [][(last_op' \in {"alloc_page", "free_page", "alloc_huge"})
       => /\ Len(shm_list') >= Len(shm_list)
          /\ \A i \in 1..Len(shm_list) :
               /\ shm_list'[i].key = shm_list[i].key
               /\ shm_list'[i].base_buf = shm_list[i].base_buf
               /\ shm_list'[i].size = shm_list[i].size
               /\ shm_list'[i].cur_buf >= shm_list[i].cur_buf
               /\ shm_list'[i].free_hugepages <= shm_list[i].free_hugepages
          /\ (last_op' = "free_page"
                \/ (last_op' = "alloc_page" /\ page_freelist # <<>>))
               => /\ shm_list' = shm_list
                  /\ get_reserved_memory' = get_reserved_memory
                  /\ prev_allocation_size' = prev_allocation_size]_vars

\* a page was freed in an allocator of two regions whose cursors have both moved
C17_Witness ==
  /\ status = "live"
  /\ last_op = "free_page"
  /\ Len(shm_list) = 2
  /\ shm_list[1].cur_buf > shm_list[1].base_buf
  /\ shm_list[2].cur_buf > shm_list[2].base_buf

\* the keys, resp. bases, of a list of regions, in list order
KeysOf(list) == [i \in 1..Len(list) |-> list[i].key]
BasesOf(list) == [i \in 1..Len(list) |-> list[i].base_buf]
Reverse(s) == [i \in 1..Len(s) |-> s[Len(s) + 1 - i]]

\* C18 (as stated): teardown removes the regions in the reverse of the order
\* in which they were acquired, the region acquired last first.
C18_TeardownReverse ==
  status = "destroyed" =>
    /\ rm_log = Reverse(KeysOf(created))
    /\ dt_log = Reverse(BasesOf(created))

\* C18 (amended): teardown walks the registry front to back: the destructor
\* step removes and detaches the regions of shm_list in list order, which is
\* the order in which they were acquired, the region acquired first first.
C18_TeardownFrontToBack ==
  [][last_op' = "destroy"
       => /\ KeysOf(shm_list) = KeysOf(created)
          /\ BasesOf(shm_list) = BasesOf(created)
          /\ \E k \in 0..Len(shm_list) :
               /\ rm_log' = rm_log \o SubSeq(KeysOf(shm_list), 1, k)
               /\ dt_log' = dt_log \o SubSeq(BasesOf(shm_list), 1, k)
               /\ status' = "destroyed" <=> k = Len(shm_list)]_vars

\* a teardown of two regions removed the older region first
C18_Witness ==
  /\ status = "destroyed"
  /\ Len(created) = 2
  /\ Len(rm_log) = 2
  /\ rm_log[1] = created[1].key
  /\ rm_log[2] = created[2].key
  /\ rm_log[1] # rm_log[2]

RECURSIVE SumSeq(_)
SumSeq(q) == IF q = <<>> THEN 0 ELSE q[1] + SumSeq(Tail(q))

\* C19: tot_free_hugepages is the sum of free_hugepages over the regions;
\* so alloc_page never runs into its trailing exit(-1) (it ends the process
\* only where the acquirer does), and pop_hugepages is never asked for more
\* hugepages than the region has free (no free_hugepages goes below 0), also
\* on the region alloc_huge has just acquired.
C19_TotFreeIsSum ==
  /\ [](status = "live" => tot_free_hugepages = SumSeq(RegionFree))
  /\ [](\A i \in 1..Len(RegionFree) : RegionFree[i] >= 0)
  /\ [][(last_op' = "alloc_page" /\ status' = "exited")
          => acq' \in {"shmat", "mbind"}]_vars
  /\ [][(last_op' = "alloc_huge" /\ acq' = "OK" /\ shm_list' # <<>>)
          => /\ Last(created').free_hugepages >= LastReqd'
             /\ Last(shm_list').free_hugepages
                  = Last(created').free_hugepages - LastReqd']_vars

\* alloc_page has scanned two regions and carved the second one, the first
\* being used up
C19_Witness ==
  /\ status = "live"
  /\ last_op = "alloc_page" /\ acq = "none" /\ ret # nullptr
  /\ Len(shm_list) = 2
  /\ shm_list[1].free_hugepages = 0
  /\ shm_list[2].cur_buf = ret + kPageSize
  /\ shm_list[2].cur_buf > shm_list[2].base_buf + kHugepageSize

\* C20: every alloc_huge call terminates, and last_reservation stays positive
\* and never decreases: whatever came before, growth attempts refused for
\* lack of memory included, the loop that doubles last_reservation until it
\* is at least the request ends, with a non-zero value that is at least the
\* request.
C20_DoublingTerminates ==
  /\ [](status # "hung")
  /\ [](status = "live" => ~IsZero64(prev_allocation_size))
  /\ [][status = "live" => ~Less64(prev_allocation_size', prev_allocation_size)]_vars
  /\ [][(last_op' = "alloc_huge" /\ prev_allocation_size' # prev_allocation_size)
          => /\ ~IsZero64(prev_allocation_size')
             /\ ~Less64(prev_allocation_size', arg_wide')]_vars
====
